---------------------------- MODULE Spec2Model ----------------------------
(***************************************************************************)
(* Firmware event-trace collector of the amdxdna driver                    *)
(* (src/driver/amdxdna/aie2_event_trace.c).                                *)
(*                                                                         *)
(* Three specifications share one set of variables:                        *)
(*   Spec       - enable/disable state machine, session lifecycle and the  *)
(*                log-buffer interrupt handler running beside it;          *)
(*   SpecRing   - firmware appends and host drains on one ring buffer;     *)
(*   SpecDecode - the per-record decode and time correlation.              *)
(*                                                                         *)
(* Machine integers are scaled: uint32_t is U32Bits wide and uint64_t is   *)
(* U64Bits wide, so that the wrap-around of each is within reach.          *)
(***************************************************************************)
EXTENDS Integers, Sequences, FiniteSets

(* ------------------------------ bounds --------------------------------- *)

\* width in bits of the scaled uint32_t
U32Bits == 3

\* width in bits of the scaled uint64_t of the decoder (counter, timestamps)
U64Bits == 6

\* largest log-area size rb_size drawn by SpecRing
MaxRb == 3

\* most bytes firmware appends in one step
MaxAppend == 3

\* scaled TRACE_EVENT_BUFFER_METADATA_SIZE (bytes of the trailing metadata)
MetaSize == 1

\* scaled MAX_ONE_TIME_LOG_INFO_LEN (bytes of one log record)
LogInfoLen == 2

\* number of aie2_assign_event_trace_state calls explored by Spec
MaxCalls == 3

\* bytes firmware appends at most during one run of Spec
MaxMainTail == 1

(* --------------------------- program constants ------------------------- *)

\* device counter ticks per microsecond
TicksPerUs == 24

\* PCI device id and first revision that support event tracing
TraceDeviceId == 6128
TraceMinRevision == 16

NULL == 0
EVENT_TRACE_ENABLED == 1
AIE2_DEV_START == 1
ENOMEM == 12

U32 == 2 ^ U32Bits
U64 == 2 ^ U64Bits
U16 == 2 ^ (U32Bits - 1)

\* absolute byte counts explored for tail_offset: past the uint32_t range
MaxTail == U32 + MaxRb

\* session identities: one per call at most
Ids == 1 .. MaxCalls

VARIABLES
    \* --- device (struct amdxdna_dev_hdl and its pci_dev) ---
    pdev,                 \* [present, device, revision] of the pci_dev
    dev_status,           \* ndev->dev_status
    event_trace_enabled,  \* ndev->event_trace_enabled
    event_trace_req,      \* ndev->event_trace_req: NULL or a session id
    \* --- heap and interrupt line ---
    ctrl,                 \* [Ids -> {"none","live","freed"}]  struct event_trace_req_buf
    dma,                  \* [Ids -> {"none","live","freed"}]  req_buf->buf
    irq,                  \* [Ids -> {"none","registered","freed"}] request_irq/free_irq
    anchor,               \* [Ids -> [resp_timestamp, sys_start_time]]
    \* --- firmware and mailbox ---
    fw_tracing,           \* firmware is producing records
    fw_target,            \* session whose buffer address firmware was given
    n_start,              \* start-trace messages sent
    n_stop,               \* stop-trace messages sent
    msix_reg,             \* LOG_BUF_MB_IOHUB_PTR register
    \* --- control thread in aie2_assign_event_trace_state ---
    pc, arg, req_buf, ret, dbg, calls,
    \* --- interrupt context in log_buffer_irq_handler ---
    h_pc, h_req, log_size, drain_in, segs, log_out,
    \* --- the shared region of each session (metadata cursors and log
    \*     area, indexed by session) and the global scratch buffer ---
    rb_size, tail_offset, head_offset, sysBuf, g_fwLogBuf,
    \* --- what the decoder was handed so far, and whether a drain ever began
    \*     with more than rb_size unread bytes ---
    delivered, overrun,
    \* --- decoder input of SpecDecode ---
    log_content

dev_vars  == <<pdev, dev_status, event_trace_enabled, event_trace_req>>
heap_vars == <<ctrl, dma, irq, anchor>>
fw_vars   == <<fw_tracing, fw_target, n_start, n_stop, msix_reg>>
ctl_vars  == <<pc, arg, req_buf, ret, dbg, calls>>
irq_vars  == <<h_pc, h_req, log_size, drain_in, segs, log_out>>
ring_vars == <<rb_size, tail_offset, head_offset, sysBuf, g_fwLogBuf>>
hist_vars == <<delivered, overrun>>

vars == <<dev_vars, heap_vars, fw_vars, ctl_vars, irq_vars, ring_vars,
          hist_vars, log_content>>

(* ------------------------- ring buffer extraction ---------------------- *)

\* rb_size + metadata block: the size of the shared region and of g_fwLogBuf
TRACE_EVENT_BUFFER_SIZE(rb) == rb + MetaSize

\* the byte firmware writes at absolute position p of its stream
Stamp(p) == p + 1

\* log area after firmware wrote absolute positions from .. to-1 (later bytes
\* overwrite earlier ones at the same physical position)
FwWrite(buf, rb, from, to) ==
    [i \in 0 .. rb - 1 |->
        LET ps == {p \in from .. to - 1 : p % rb = i}
        IN  IF ps = {} THEN buf[i]
            ELSE Stamp(CHOOSE p \in ps : \A q \in ps : q <= p)]

\* memcpy(kern_buf + offset, sysBuf + rd_ptr, n)
memcpy(kern, offset, sys, rd_ptr, n) ==
    [i \in DOMAIN kern |->
        IF i >= offset /\ i < offset + n THEN sys[rd_ptr + (i - offset)]
        ELSE kern[i]]

\* CopyLoop whose rd_ptr advances without the modulo of line 142
RECURSIVE CopyLoop_NoModulo(_, _, _, _)
CopyLoop_NoModulo(sys, rb, wr_ptr_wrap, st) ==
    LET rd_ptr == st.rd_ptr
        sz == IF wr_ptr_wrap > rd_ptr THEN wr_ptr_wrap - rd_ptr
              ELSE IF wr_ptr_wrap < rd_ptr THEN rb - rd_ptr
              ELSE 0
    IN  IF wr_ptr_wrap = rd_ptr
          THEN [st EXCEPT !.total = 0, !.exit = "empty"]
        ELSE IF sz > rb
          THEN [st EXCEPT !.total = 0, !.exit = "corrupt"]
        ELSE LET nx == [rd_ptr |-> rd_ptr + sz,
                        offset |-> (st.offset + sz) % U32,
                        total  |-> (st.total + sz) % U32,
                        kern   |-> memcpy(st.kern, st.offset, sys, rd_ptr, sz),
                        segs   |-> Append(st.segs,
                                     [rd_ptr |-> rd_ptr, log_size |-> sz,
                                      offset |-> st.offset]),
                        exit   |-> "done"]
             IN  IF nx.rd_ptr < wr_ptr_wrap
                   THEN CopyLoop_NoModulo(sys, rb, wr_ptr_wrap, nx)
                   ELSE nx

\* CopyLoop that takes equal read and write positions for a full log area
\* and copies all of it
RECURSIVE CopyLoop_EqualIsFull(_, _, _, _)
CopyLoop_EqualIsFull(sys, rb, wr_ptr_wrap, st) ==
    LET rd_ptr == st.rd_ptr
        sz == IF wr_ptr_wrap > rd_ptr THEN wr_ptr_wrap - rd_ptr
              ELSE rb - rd_ptr
    IN  IF sz > rb
          THEN [st EXCEPT !.total = 0, !.exit = "corrupt"]
        ELSE LET nx == [rd_ptr |-> (rd_ptr + sz) % rb,
                        offset |-> (st.offset + sz) % U32,
                        total  |-> (st.total + sz) % U32,
                        kern   |-> memcpy(st.kern, st.offset, sys, rd_ptr, sz),
                        segs   |-> Append(st.segs,
                                     [rd_ptr |-> rd_ptr, log_size |-> sz,
                                      offset |-> st.offset]),
                        exit   |-> "done"]
             IN  IF nx.rd_ptr < wr_ptr_wrap
                   THEN CopyLoop_EqualIsFull(sys, rb, wr_ptr_wrap, nx)
                   ELSE nx

\* the do { ... } while (rd_ptr < wr_ptr_wrap) loop; st carries the locals
RECURSIVE CopyLoop(_, _, _, _)
CopyLoop(sys, rb, wr_ptr_wrap, st) ==
    LET rd_ptr == st.rd_ptr
        sz == IF wr_ptr_wrap > rd_ptr THEN wr_ptr_wrap - rd_ptr
              ELSE IF wr_ptr_wrap < rd_ptr THEN rb - rd_ptr
              ELSE 0
    IN  IF wr_ptr_wrap = rd_ptr
          THEN [st EXCEPT !.total = 0, !.exit = "empty"]
        ELSE IF sz > rb
          THEN [st EXCEPT !.total = 0, !.exit = "corrupt"]
        ELSE LET nx == [rd_ptr |-> (rd_ptr + sz) % rb,
                        offset |-> (st.offset + sz) % U32,
                        total  |-> (st.total + sz) % U32,
                        kern   |-> memcpy(st.kern, st.offset, sys, rd_ptr, sz),
                        segs   |-> Append(st.segs,
                                     [rd_ptr |-> rd_ptr, log_size |-> sz,
                                      offset |-> st.offset]),
                        exit   |-> "done"]
             IN  IF nx.rd_ptr < wr_ptr_wrap
                   THEN CopyLoop(sys, rb, wr_ptr_wrap, nx)
                   ELSE nx

\* wr_ptr = (uint32_t)(trace_metadata->tail_offset)
WrPtr(tail) == tail % U32

\* aie2_get_trace_event_content: the value returned, the head_offset it
\* publishes, the scratch buffer and the segments it copied
aie2_get_trace_event_content(sys, rb, head, tail, kern) ==
    IF rb = 0
      THEN [total |-> 0, head |-> head, kern |-> kern, segs |-> <<>>,
            rd_ptr |-> 0, exit |-> "nosize"]
    ELSE
      LET rd_ptr      == (head % rb) % U32
          wr_ptr      == WrPtr(tail)
          wr_ptr_wrap == wr_ptr % rb
          r == CopyLoop(sys, rb, wr_ptr_wrap,
                        [rd_ptr |-> rd_ptr, offset |-> 0, total |-> 0,
                         kern |-> kern, segs |-> <<>>, exit |-> "done"])
      IN  [total |-> r.total, head |-> wr_ptr, kern |-> r.kern,
           segs |-> r.segs, rd_ptr |-> r.rd_ptr, exit |-> r.exit]

\* the records the while (str < end) loop walks: one per stride of
\* MAX_ONE_TIME_LOG_INFO_LEN bytes, from offset 0 up to n
RECURSIVE Strides(_, _, _)
Strides(kern, str, n) ==
    IF str >= n THEN <<>>
    ELSE <<[i \in 0 .. LogInfoLen - 1 |-> kern[str + i]]>>
         \o Strides(kern, str + LogInfoLen, n)

\* g_fwLogBuf[log_size] = 0
Terminate(kern, n) == IF n > 0 THEN [kern EXCEPT ![n] = 0] ELSE kern

\* the bytes a drain hands to the decoder: g_fwLogBuf[0 .. n-1]
Returned(kern, n) == [i \in 1 .. n |-> kern[i - 1]]

(* ----------------------- record decode and time base ------------------- *)

\* payload = (uint64_t)payload_hi << 32 | payload_low
Payload(c) == (c.payload_hi * U32 + c.payload_low) % U64

\* FwTicks with the start time added before the division
FwTicks_AddFirst(c, resp_timestamp, sys_start_time) ==
    LET d == (c.counter - resp_timestamp) % U64
    IN  ((d + sys_start_time) % U64) \div TicksPerUs

\* fwTicks = counter - resp_timestamp; fwTicks = fwTicks/24 + sys_start_time
FwTicks(c, resp_timestamp, sys_start_time) ==
    LET d == (c.counter - resp_timestamp) % U64
    IN  ((d \div TicksPerUs) + sys_start_time) % U64

\* one XDNA_INFO line: "[%llu][FW] type: 0x%04x payload:0x%016llx"
LogLine(c, resp_timestamp, sys_start_time) ==
    [time    |-> FwTicks(c, resp_timestamp, sys_start_time),
     type    |-> c.type,
     payload |-> Payload(c)]

(* ------------------------------ initial states ------------------------- *)

ZeroAnchor == [resp_timestamp |-> 0, sys_start_time |-> 0]
NoRecord == [counter |-> 0, payload_hi |-> 0, type |-> 0, payload_low |-> 0]
ZeroArea(rb) == [i \in 0 .. rb - 1 |-> 0]
NoDrain(rb) == [head |-> 0, tail |-> 0, sys |-> ZeroArea(rb)]

\* control thread and interrupt context at rest
InitIdle ==
    /\ pc = "idle" /\ arg = 0 /\ req_buf = NULL /\ ret = 0 /\ dbg = <<>>
    /\ calls = 0
    /\ h_pc = "idle" /\ h_req = NULL /\ log_size = 0 /\ segs = <<>>
    /\ log_out = <<>>
    /\ n_start = 0 /\ n_stop = 0 /\ msix_reg = 0

\* zeroed shared regions of log-area size rb and the zeroed global scratch
InitRing(rb) ==
    /\ rb_size = rb
    /\ tail_offset = [i \in Ids |-> 0]
    /\ head_offset = [i \in Ids |-> 0]
    /\ sysBuf = [i \in Ids |-> ZeroArea(rb)]
    /\ g_fwLogBuf = [i \in 0 .. TRACE_EVENT_BUFFER_SIZE(rb) - 1 |-> 0]
    /\ drain_in = NoDrain(rb)
    /\ delivered = <<>> /\ overrun = FALSE

\* session 1 started: buffer and control structure live, interrupt
\* registered, firmware tracing into it, anchor a
InitSession(a) ==
    /\ pdev = [present |-> TRUE, device |-> TraceDeviceId,
               revision |-> TraceMinRevision]
    /\ dev_status = AIE2_DEV_START
    /\ event_trace_enabled = EVENT_TRACE_ENABLED
    /\ event_trace_req = 1
    /\ ctrl = [i \in Ids |-> IF i = 1 THEN "live" ELSE "none"]
    /\ dma = [i \in Ids |-> IF i = 1 THEN "live" ELSE "none"]
    /\ irq = [i \in Ids |-> IF i = 1 THEN "registered" ELSE "none"]
    /\ anchor = [i \in Ids |-> IF i = 1 THEN a ELSE ZeroAnchor]
    /\ fw_tracing = TRUE /\ fw_target = 1

(* --------------------------- firmware producer ------------------------- *)

RECURSIVE SumTo(_, _)
SumTo(f, n) == IF n = 0 THEN 0 ELSE f[n] + SumTo(f, n - 1)

\* bytes firmware has produced over all sessions
Produced == SumTo(tail_offset, MaxCalls)

\* firmware appends n bytes to the log area it was given and advances
\* tail_offset in that region's metadata
FwAppend(n, cap) ==
    /\ fw_tracing /\ fw_target # NULL /\ dma[fw_target] = "live"
    /\ Produced + n <= cap
    /\ sysBuf' = [sysBuf EXCEPT ![fw_target] =
                    FwWrite(@, rb_size, tail_offset[fw_target],
                            tail_offset[fw_target] + n)]
    /\ tail_offset' = [tail_offset EXCEPT ![fw_target] = @ + n]
    /\ UNCHANGED <<rb_size, head_offset, g_fwLogBuf>>

(* ------------------------- drain and decode steps ---------------------- *)

\* what aie2_get_trace_event_content does on the region of session s
ContentOf(s) ==
    aie2_get_trace_event_content(sysBuf[s], rb_size, head_offset[s],
                                 tail_offset[s], g_fwLogBuf)

\* log_size = aie2_get_trace_event_content(trace_req_buf, g_fwLogBuf), all
\* but the scratch buffer
GetContent(s, r) ==
    /\ drain_in' = [head |-> head_offset[s], tail |-> tail_offset[s],
                    sys |-> sysBuf[s]]
    /\ overrun' = (overrun \/ tail_offset[s] - head_offset[s] > rb_size)
    /\ head_offset' = [head_offset EXCEPT ![s] = r.head]
    /\ log_size' = r.total
    /\ segs' = r.segs
    /\ UNCHANGED <<rb_size, tail_offset, sysBuf>>

\* if (log_size) { g_fwLogBuf[log_size] = 0; while (str < end) ... }
\* with the anchor read through the two pointers the loop uses
DecodeWith(n, kern, a_resp, a_sys) ==
    /\ g_fwLogBuf' = Terminate(kern, n)
    /\ delivered' = delivered \o Returned(kern, n)
    /\ log_out' = [k \in 1 .. Len(Strides(Terminate(kern, n), 0, n)) |->
                     [bytes |-> Strides(Terminate(kern, n), 0, n)[k],
                      resp_timestamp |-> a_resp.resp_timestamp,
                      sys_start_time |-> a_sys.sys_start_time]]

(* ------------------------------- SpecRing ------------------------------ *)

RingFrame == UNCHANGED <<dev_vars, heap_vars, fw_vars, ctl_vars, h_pc, h_req,
                         log_content>>

InitRingSpec ==
    /\ InitIdle
    /\ InitSession([resp_timestamp |-> 1, sys_start_time |-> 1])
    /\ \E rb \in 1 .. MaxRb : InitRing(rb)
    /\ log_content = NoRecord

\* firmware produces between two interrupts
RingAppend ==
    /\ \E n \in 1 .. MaxAppend : FwAppend(n, MaxTail)
    /\ UNCHANGED <<log_size, drain_in, segs, log_out, hist_vars>>
    /\ RingFrame

\* one run of aie2_print_trace_event_log on the live session
RingDrain ==
    /\ event_trace_req # NULL
    /\ GetContent(event_trace_req, ContentOf(event_trace_req))
    /\ DecodeWith(ContentOf(event_trace_req).total,
                  ContentOf(event_trace_req).kern,
                  anchor[event_trace_req], anchor[event_trace_req])
    /\ RingFrame

NextRing == RingAppend \/ RingDrain

SpecRing == InitRingSpec /\ [][NextRing]_vars

(* ------------------------------ SpecDecode ----------------------------- *)

\* values of the scaled uint64_t counter and of the record's fields
Counters == 0 .. U64 - 1
StartTimes == {0, 5, U64 - 1}
Halfwords == {0, U16 - 1}
Words == {0, U32 - 1}
Records == [counter : Counters, payload_hi : Halfwords, type : Halfwords,
            payload_low : Words]

DecodeFrame == UNCHANGED <<dev_vars, heap_vars, fw_vars, ctl_vars, h_pc, h_req,
                           log_size, drain_in, segs, ring_vars, hist_vars>>

InitDecodeSpec ==
    /\ InitIdle
    /\ \E r \in Counters, s \in StartTimes :
          InitSession([resp_timestamp |-> r, sys_start_time |-> s])
    /\ InitRing(1)
    /\ log_content = NoRecord

\* log_content = (struct trace_event_log_data *)str: the next record of the
\* scratch buffer comes into view
NextRecord ==
    /\ log_content = NoRecord
    /\ log_out = <<>>
    /\ \E c \in Records : c # NoRecord /\ log_content' = c
    /\ UNCHANGED log_out
    /\ DecodeFrame

\* the body of the while (str < end) loop for the record in view
PrintRecord ==
    /\ log_content # NoRecord
    /\ log_out = <<>>
    /\ event_trace_req # NULL
    /\ log_out' = <<LogLine(log_content,
                            anchor[event_trace_req].resp_timestamp,
                            anchor[event_trace_req].sys_start_time)>>
    /\ UNCHANGED log_content
    /\ DecodeFrame

NextDecode == NextRecord \/ PrintRecord

SpecDecode == InitDecodeSpec /\ [][NextDecode]_vars

(* --------------------------- claims on the decoder --------------------- *)

\* C8: the time emitted for a record is floor((counter - resp_timestamp)/24)
\* + sys_start_time with the subtraction and the addition taken modulo the
\* width of uint64_t, and the payload emitted has payload_hi above the 32
\* bits of payload_low.
C8_TimestampCorrelation ==
    \A k \in 1 .. Len(log_out) :
        LET a == anchor[event_trace_req]
            c == log_content
            line == log_out[k]
            delta == CHOOSE d \in Counters :
                        (a.resp_timestamp + d) % U64 = c.counter
            us == (line.time - a.sys_start_time) % U64
        IN  /\ line.time \in Counters
            /\ TicksPerUs * us <= delta
            /\ delta < TicksPerUs * (us + 1)
            /\ line.payload \div U32 = c.payload_hi
            /\ line.payload % U32 = c.payload_low
            /\ line.type = c.type

\* a record whose counter lies below the anchor (the subtraction wraps) and
\* whose time wraps past the top of uint64_t was printed
C8_Witness ==
    /\ Len(log_out) = 1
    /\ log_content.counter < anchor[event_trace_req].resp_timestamp
    /\ log_out[1].time < anchor[event_trace_req].sys_start_time
    /\ log_content.payload_hi > 0 /\ log_content.payload_low > 0

(* --------------------- capability gate (lines 75-86) ------------------- *)

\* the gate without its revision test
Supported_AnyRevision ==
    IF ~pdev.present THEN FALSE
    ELSE pdev.device = TraceDeviceId

\* aie2_is_event_trace_supported_on_dev
aie2_is_event_trace_supported_on_dev ==
    IF ~pdev.present THEN FALSE
    ELSE pdev.device = TraceDeviceId /\ pdev.revision >= TraceMinRevision

(* ------------------- control thread: set_trace_state ------------------- *)

Live(f) == {i \in Ids : f[i] = "live"}
Registered == {i \in Ids : irq[i] = "registered"}

\* identities not yet handed out by kzalloc
Fresh == {i \in Ids : ctrl[i] = "none"}

CtlFrame == UNCHANGED <<irq_vars, ring_vars, hist_vars, log_content>>

\* a caller holding dev_lock calls aie2_assign_event_trace_state(ndev, state)
Call ==
    /\ pc = "idle" /\ calls < MaxCalls
    /\ \E state \in {0, 1} : arg' = state
    /\ pc' = "entry" /\ calls' = calls + 1 /\ dbg' = <<>> /\ ret' = 0
    /\ req_buf' = NULL
    /\ UNCHANGED <<dev_vars, heap_vars, fw_vars>>
    /\ CtlFrame

\* AssignEntry without the test of lines 48-51
AssignEntry_NoSameCheck ==
    /\ pc = "entry"
    /\ IF ~aie2_is_event_trace_supported_on_dev
         THEN /\ dbg' = Append(dbg, "unsupported") /\ pc' = "ret"
              /\ UNCHANGED event_trace_enabled
       ELSE /\ event_trace_enabled' = arg
            /\ IF arg # 0
                 THEN pc' = "kzalloc" /\ UNCHANGED dbg
               ELSE IF dev_status >= AIE2_DEV_START
                 THEN pc' = "stop_send" /\ UNCHANGED dbg
               ELSE pc' = "clear" /\ dbg' = Append(dbg, "not_started")
    /\ UNCHANGED <<pdev, dev_status, event_trace_req, heap_vars, fw_vars,
                   arg, req_buf, ret, calls>>
    /\ CtlFrame

\* lines 43-54, 63-64 and 67-70: the checks, the flag and the branch taken
AssignEntry ==
    /\ pc = "entry"
    /\ IF ~aie2_is_event_trace_supported_on_dev
         THEN /\ dbg' = Append(dbg, "unsupported") /\ pc' = "ret"
              /\ UNCHANGED event_trace_enabled
       ELSE IF event_trace_enabled = arg
         THEN /\ dbg' = Append(dbg, "already") /\ pc' = "ret"
              /\ UNCHANGED event_trace_enabled
       ELSE /\ event_trace_enabled' = arg
            /\ IF arg # 0
                 THEN pc' = "kzalloc" /\ UNCHANGED dbg
               ELSE IF dev_status >= AIE2_DEV_START
                 THEN pc' = "stop_send" /\ UNCHANGED dbg
               ELSE pc' = "clear" /\ dbg' = Append(dbg, "not_started")
    /\ UNCHANGED <<pdev, dev_status, event_trace_req, heap_vars, fw_vars,
                   arg, req_buf, ret, calls>>
    /\ CtlFrame

\* aie2_event_trace_alloc, lines 220-222
AllocKzalloc ==
    /\ pc = "kzalloc"
    /\ \/ \E i \in Fresh :
            /\ i = CHOOSE j \in Fresh : \A k \in Fresh : j <= k
            /\ ctrl' = [ctrl EXCEPT ![i] = "live"]
            /\ anchor' = [anchor EXCEPT ![i] = ZeroAnchor]
            /\ req_buf' = i /\ pc' = "dma_alloc"
            /\ UNCHANGED <<ret, dbg>>
       \/ /\ ret' = -ENOMEM /\ pc' = "fail_free"
          /\ dbg' = dbg \o <<"alloc_failed", "start_failed">>
          /\ UNCHANGED <<ctrl, anchor, req_buf>>
    /\ UNCHANGED <<dev_vars, dma, irq, fw_vars, arg, calls>>
    /\ CtlFrame

\* lines 224-230
AllocDma ==
    /\ pc = "dma_alloc"
    /\ \/ /\ dma' = [dma EXCEPT ![req_buf] = "live"]
          /\ pc' = "publish" /\ UNCHANGED ret
       \/ /\ ret' = -ENOMEM /\ pc' = "alloc_unpublish" /\ UNCHANGED dma
    /\ UNCHANGED <<dev_vars, ctrl, irq, anchor, fw_vars, arg, req_buf, dbg,
                   calls>>
    /\ CtlFrame

\* lines 231-233: ndev->event_trace_req = req_buf
AllocPublish ==
    /\ pc = "publish"
    /\ event_trace_req' = req_buf
    /\ pc' = "request_irq"
    /\ UNCHANGED <<pdev, dev_status, event_trace_enabled, heap_vars, fw_vars,
                   arg, req_buf, ret, dbg, calls>>
    /\ CtlFrame

\* AllocRequestIrq whose failure branch lacks the goto of line 239 and falls
\* through to the return 0 of line 244
AllocRequestIrq_NoGoto ==
    /\ pc = "request_irq"
    /\ \/ /\ irq' = [irq EXCEPT ![req_buf] = "registered"]
          /\ ret' = 0 /\ pc' = "send_start" /\ UNCHANGED dbg
       \/ /\ ret' = 0 /\ pc' = "send_start"
          /\ dbg' = Append(dbg, "irq_failed") /\ UNCHANGED irq
    /\ UNCHANGED <<dev_vars, ctrl, dma, anchor, fw_vars, arg, req_buf, calls>>
    /\ CtlFrame

\* lines 235-244: request_irq(log_ch_irq, log_buffer_irq_handler, ...)
AllocRequestIrq ==
    /\ pc = "request_irq"
    /\ \/ /\ irq' = [irq EXCEPT ![req_buf] = "registered"]
          /\ ret' = 0 /\ pc' = "send_start" /\ UNCHANGED dbg
       \/ /\ ret' = -1 /\ pc' = "alloc_free_dma"
          /\ dbg' = Append(dbg, "irq_failed") /\ UNCHANGED irq
    /\ UNCHANGED <<dev_vars, ctrl, dma, anchor, fw_vars, arg, req_buf, calls>>
    /\ CtlFrame

\* free_dma_trace_buf: lines 245-247
AllocFreeDma ==
    /\ pc = "alloc_free_dma"
    /\ dma' = [dma EXCEPT ![req_buf] = "freed"]
    /\ pc' = "alloc_unpublish"
    /\ UNCHANGED <<dev_vars, ctrl, irq, anchor, fw_vars, arg, req_buf, ret,
                   dbg, calls>>
    /\ CtlFrame

\* free_event_trace_req_buf: lines 249-252, then lines 283-287 and 57-61
AllocUnpublish ==
    /\ pc = "alloc_unpublish"
    /\ event_trace_req' = NULL
    /\ ctrl' = [ctrl EXCEPT ![req_buf] = "freed"]
    /\ dbg' = dbg \o <<"alloc_failed", "start_failed">>
    /\ pc' = "fail_free"
    /\ UNCHANGED <<pdev, dev_status, event_trace_enabled, dma, irq, anchor,
                   fw_vars, arg, req_buf, ret, calls>>
    /\ CtlFrame

\* SendStart whose failure branch skips aie2_event_trace_free
SendStart_NoRecovery ==
    /\ pc = "send_start"
    /\ n_start' = n_start + 1
    /\ \/ /\ fw_tracing' = TRUE /\ fw_target' = event_trace_req
          /\ ret' = 0 /\ pc' = "set_timestamp" /\ UNCHANGED dbg
       \/ /\ ret' = -1 /\ pc' = "clear"
          /\ dbg' = Append(dbg, "start_failed")
          /\ UNCHANGED <<fw_tracing, fw_target>>
    /\ UNCHANGED <<dev_vars, heap_vars, n_stop, msix_reg, arg, req_buf, calls>>
    /\ CtlFrame

\* lines 278-282 and 57-61: aie2_start_event_trace over the mailbox with the
\* address and size of ndev->event_trace_req
SendStart ==
    /\ pc = "send_start"
    /\ n_start' = n_start + 1
    /\ \/ /\ fw_tracing' = TRUE /\ fw_target' = event_trace_req
          /\ ret' = 0 /\ pc' = "set_timestamp" /\ UNCHANGED dbg
       \/ /\ ret' = -1 /\ pc' = "fail_free"
          /\ dbg' = Append(dbg, "start_failed")
          /\ UNCHANGED <<fw_tracing, fw_target>>
    /\ UNCHANGED <<dev_vars, heap_vars, n_stop, msix_reg, arg, req_buf, calls>>
    /\ CtlFrame

\* values of current_timestamp in the start response and of ktime_get_ns()/1000
Timestamps == {1, 2}

\* aie2_set_trace_timestamp on the start response, lines 88-94
aie2_set_trace_timestamp ==
    /\ pc = "set_timestamp"
    /\ \E t \in Timestamps, now \in Timestamps :
          anchor' = [anchor EXCEPT ![event_trace_req] =
                       [resp_timestamp |-> t, sys_start_time |-> now]]
    /\ pc' = "clear"
    /\ UNCHANGED <<dev_vars, ctrl, dma, irq, fw_vars, arg, req_buf, ret, dbg,
                   calls>>
    /\ CtlFrame

\* aie2_stop_event_trace_send after which a failed stop message skips
\* aie2_event_trace_free
StopSend_FailureSkipsFree ==
    /\ pc = "stop_send"
    /\ IF event_trace_req = NULL
         THEN pc' = "free" /\ UNCHANGED <<n_stop, fw_tracing, ret>>
         ELSE /\ n_stop' = n_stop + 1
              /\ \/ fw_tracing' = FALSE /\ ret' = 0 /\ pc' = "free"
                 \/ ret' = -1 /\ pc' = "clear" /\ UNCHANGED fw_tracing
    /\ UNCHANGED <<dev_vars, heap_vars, fw_target, n_start, msix_reg, arg,
                   req_buf, dbg, calls>>
    /\ CtlFrame

\* aie2_stop_event_trace_send, lines 201-212
aie2_stop_event_trace_send ==
    /\ pc = "stop_send"
    /\ IF event_trace_req = NULL
         THEN UNCHANGED <<n_stop, fw_tracing, ret>>
         ELSE /\ n_stop' = n_stop + 1
              /\ \/ fw_tracing' = FALSE /\ ret' = 0
                 \/ ret' = -1 /\ UNCHANGED fw_tracing
    /\ pc' = "free"
    /\ UNCHANGED <<dev_vars, heap_vars, fw_target, n_start, msix_reg, arg,
                   req_buf, dbg, calls>>
    /\ CtlFrame

\* aie2_event_trace_free, lines 257-261: req_buf = ndev->event_trace_req
FreeRead ==
    /\ pc \in {"free", "fail_free"}
    /\ req_buf' = event_trace_req
    /\ pc' = IF event_trace_req = NULL THEN "clear" ELSE "free_dma"
    /\ UNCHANGED <<dev_vars, heap_vars, fw_vars, arg, ret, dbg, calls>>
    /\ CtlFrame

\* lines 263-264: dma_free_noncoherent
FreeDma ==
    /\ pc = "free_dma"
    /\ dma' = [dma EXCEPT ![req_buf] = "freed"]
    /\ pc' = "free_null"
    /\ UNCHANGED <<dev_vars, ctrl, irq, anchor, fw_vars, arg, req_buf, ret,
                   dbg, calls>>
    /\ CtlFrame

\* line 265: ndev->event_trace_req = NULL
FreeNull ==
    /\ pc = "free_null"
    /\ event_trace_req' = NULL
    /\ pc' = "free_irq"
    /\ UNCHANGED <<pdev, dev_status, event_trace_enabled, heap_vars, fw_vars,
                   arg, req_buf, ret, dbg, calls>>
    /\ CtlFrame

\* FreeIrq that does not wait for a running handler
FreeIrq_NoWait ==
    /\ pc = "free_irq"
    /\ irq' = [irq EXCEPT ![req_buf] = "freed"]
    /\ pc' = "free_kfree"
    /\ UNCHANGED <<dev_vars, ctrl, dma, anchor, fw_vars, arg, req_buf, ret,
                   dbg, calls>>
    /\ CtlFrame

\* line 266: free_irq returns once no handler of the line is running
FreeIrq ==
    /\ pc = "free_irq"
    /\ h_pc = "idle"
    /\ irq' = [irq EXCEPT ![req_buf] = "freed"]
    /\ pc' = "free_kfree"
    /\ UNCHANGED <<dev_vars, ctrl, dma, anchor, fw_vars, arg, req_buf, ret,
                   dbg, calls>>
    /\ CtlFrame

\* line 267: kfree(req_buf), and aie2_event_trace_free returns
FreeKfree ==
    /\ pc = "free_kfree"
    /\ ctrl' = [ctrl EXCEPT ![req_buf] = "freed"]
    /\ pc' = "clear"
    /\ UNCHANGED <<dev_vars, dma, irq, anchor, fw_vars, arg, req_buf, ret,
                   dbg, calls>>
    /\ CtlFrame

\* AssignClear that clears the register on the enable branch only
AssignClear_EnableOnly ==
    /\ pc = "clear"
    /\ msix_reg' = IF arg # 0 THEN 0 ELSE msix_reg
    /\ dbg' = Append(dbg, "state")
    /\ pc' = "ret"
    /\ UNCHANGED <<dev_vars, heap_vars, fw_tracing, fw_target, n_start,
                   n_stop, arg, req_buf, ret, calls>>
    /\ CtlFrame

\* lines 71-72: clear_event_trace_msix(ndev) and the closing debug line
AssignClear ==
    /\ pc = "clear"
    /\ msix_reg' = 0
    /\ dbg' = Append(dbg, "state")
    /\ pc' = "ret"
    /\ UNCHANGED <<dev_vars, heap_vars, fw_tracing, fw_target, n_start,
                   n_stop, arg, req_buf, ret, calls>>
    /\ CtlFrame

\* aie2_assign_event_trace_state returns to its caller
Return ==
    /\ pc = "ret"
    /\ pc' = "idle"
    /\ UNCHANGED <<dev_vars, heap_vars, fw_vars, arg, req_buf, ret, dbg, calls>>
    /\ CtlFrame

(* ------------------------------ environment ---------------------------- *)

\* the device reaches or leaves its started milestone between two calls
DevStatusChange ==
    /\ pc = "idle"
    /\ dev_status' = IF dev_status >= AIE2_DEV_START
                       THEN AIE2_DEV_START - 1 ELSE AIE2_DEV_START
    /\ UNCHANGED <<pdev, event_trace_enabled, event_trace_req, heap_vars,
                   fw_vars, ctl_vars>>
    /\ CtlFrame

\* firmware latches the log-buffer interrupt
FwRaise ==
    /\ fw_tracing /\ msix_reg = 0
    /\ msix_reg' = 1
    /\ UNCHANGED <<dev_vars, heap_vars, fw_tracing, fw_target, n_start,
                   n_stop, ctl_vars>>
    /\ CtlFrame

\* firmware writes a record byte into the region it was given
FwProduce ==
    /\ FwAppend(1, MaxMainTail)
    /\ UNCHANGED <<dev_vars, heap_vars, fw_vars, ctl_vars, irq_vars,
                   hist_vars, log_content>>

(* ------------------ interrupt context: log_buffer_irq_handler ---------- *)

IrqFrame == UNCHANGED <<dev_vars, heap_vars, ctl_vars, log_content>>

\* lines 184-194: the line fires while a handler is registered on it; the
\* handler clears the interrupt
IrqFire ==
    /\ h_pc = "idle" /\ Registered # {}
    /\ msix_reg' = 0
    /\ h_pc' = "flag"
    /\ log_out' = <<>>
    /\ UNCHANGED <<fw_tracing, fw_target, n_start, n_stop, h_req, log_size,
                   drain_in, segs, ring_vars, hist_vars>>
    /\ IrqFrame

\* IrqFlag without the test of the enablement flag
IrqFlag_NoGate ==
    /\ h_pc = "flag"
    /\ h_pc' = "print"
    /\ UNCHANGED <<fw_vars, h_req, log_size, drain_in, segs, log_out,
                   ring_vars, hist_vars>>
    /\ IrqFrame

\* lines 196-198: if (ndev->event_trace_enabled == EVENT_TRACE_ENABLED)
IrqFlag ==
    /\ h_pc = "flag"
    /\ h_pc' = IF event_trace_enabled = EVENT_TRACE_ENABLED
                 THEN "print" ELSE "idle"
    /\ UNCHANGED <<fw_vars, h_req, log_size, drain_in, segs, log_out,
                   ring_vars, hist_vars>>
    /\ IrqFrame

\* lines 155-160: trace_req_buf = ndev->event_trace_req
PrintRead ==
    /\ h_pc = "print"
    /\ h_req' = event_trace_req
    /\ h_pc' = IF event_trace_req = NULL THEN "idle" ELSE "drain"
    /\ UNCHANGED <<fw_vars, log_size, drain_in, segs, log_out, ring_vars,
                   hist_vars>>
    /\ IrqFrame

\* line 162: aie2_get_trace_event_content on trace_req_buf->buf; a region
\* already released either still holds what it held or reads as empty
PrintDrain ==
    /\ h_pc = "drain"
    /\ \/ /\ GetContent(h_req, ContentOf(h_req))
          /\ g_fwLogBuf' = ContentOf(h_req).kern
       \/ /\ dma[h_req] = "freed"
          /\ log_size' = 0 /\ segs' = <<>>
          /\ UNCHANGED <<drain_in, overrun, ring_vars>>
    /\ h_pc' = "decode"
    /\ UNCHANGED <<fw_vars, h_req, log_out, delivered>>
    /\ IrqFrame

\* lines 163-181: the decode loop reads trace_req_buf->resp_timestamp and
\* ndev->event_trace_req->sys_start_time; the second faults on NULL
PrintDecode ==
    /\ h_pc = "decode"
    /\ IF log_size = 0
         THEN /\ h_pc' = "idle" /\ h_req' = NULL
              /\ UNCHANGED <<g_fwLogBuf, delivered, log_out>>
       ELSE IF event_trace_req = NULL
         THEN /\ h_pc' = "oops" /\ UNCHANGED h_req
              /\ g_fwLogBuf' = Terminate(g_fwLogBuf, log_size)
              /\ UNCHANGED <<delivered, log_out>>
       ELSE /\ h_pc' = "idle" /\ h_req' = NULL
            /\ DecodeWith(log_size, g_fwLogBuf, anchor[h_req],
                          anchor[event_trace_req])
    /\ UNCHANGED <<fw_vars, log_size, drain_in, segs, rb_size, tail_offset,
                   head_offset, sysBuf, overrun>>
    /\ IrqFrame

(* --------------------------------- Spec -------------------------------- *)

\* the device before the first call: no session, tracing disabled
Init ==
    /\ InitIdle
    /\ pdev \in [present : {TRUE},
                  device : {TraceDeviceId, TraceDeviceId + 1},
                  revision : {TraceMinRevision - 1, TraceMinRevision}]
                 \cup {[present |-> FALSE, device |-> 0, revision |-> 0]}
    /\ dev_status \in {AIE2_DEV_START - 1, AIE2_DEV_START}
    /\ event_trace_enabled = 0
    /\ event_trace_req = NULL
    /\ ctrl = [i \in Ids |-> "none"]
    /\ dma = [i \in Ids |-> "none"]
    /\ irq = [i \in Ids |-> "none"]
    /\ anchor = [i \in Ids |-> ZeroAnchor]
    /\ fw_tracing = FALSE /\ fw_target = NULL
    /\ InitRing(MaxRb)
    /\ log_content = NoRecord

Next ==
    \/ Call \/ AssignEntry
    \/ AllocKzalloc \/ AllocDma \/ AllocPublish \/ AllocRequestIrq
    \/ AllocFreeDma \/ AllocUnpublish
    \/ SendStart \/ aie2_set_trace_timestamp
    \/ aie2_stop_event_trace_send
    \/ FreeRead \/ FreeDma \/ FreeNull \/ FreeIrq \/ FreeKfree
    \/ AssignClear \/ Return
    \/ DevStatusChange \/ FwRaise \/ FwProduce
    \/ IrqFire \/ IrqFlag \/ PrintRead \/ PrintDrain \/ PrintDecode

Spec == Init /\ [][Next]_vars

(* ------------------------- claims on the ring buffer ------------------- *)

\* the drain most recently run read these cursors
DrainUnread == drain_in.tail - drain_in.head
DrainInRange == drain_in.head <= drain_in.tail /\ 0 < DrainUnread
                /\ DrainUnread < rb_size
DrainWraps == (drain_in.head % rb_size) + DrainUnread > rb_size

\* C4: a drain that starts with 0 < tail_offset - head_offset < rb_size
\* returns exactly tail_offset - head_offset, leaves in the scratch buffer the
\* log-area bytes of positions (head_offset + i) mod rb_size in order, and
\* copies one segment when the range does not wrap and two when it does.
C4_DrainCorrect ==
    DrainInRange =>
        /\ log_size = DrainUnread
        /\ \A i \in 0 .. DrainUnread - 1 :
              delivered[Len(delivered) - DrainUnread + 1 + i]
                 = drain_in.sys[(drain_in.head + i) % rb_size]
        /\ Len(segs) = IF DrainWraps THEN 2 ELSE 1

\* C5: a drain that starts with head_offset mod rb_size equal to
\* tail_offset mod rb_size returns 0, copies nothing and decodes no record.
C5_NoOpDrain ==
    (drain_in.head % rb_size = drain_in.tail % rb_size) =>
        log_size = 0 /\ segs = <<>> /\ log_out = <<>>

\* C10: while no drain has begun with more than rb_size unread bytes, the
\* bytes handed to the decoder so far are exactly the bytes firmware wrote up
\* to the last drain, in order.
C10_Lossless ==
    ~overrun =>
        delivered = [i \in 1 .. drain_in.tail |-> Stamp(i - 1)]

(* ------------------------- claims on the lifecycle --------------------- *)

\* the device failing the capability gate, read off the pci_dev
GateDenies ==
    ~pdev.present \/ pdev.device # TraceDeviceId
    \/ pdev.revision < TraceMinRevision

\* session i was torn down by aie2_event_trace_free, which has returned
TornDown(i) == irq[i] = "freed" /\ ctrl[i] = "freed"

\* what the device holds of its sessions, and what firmware was told
SessionState == <<event_trace_req, ctrl, dma, irq>>
Mailbox == <<n_start, n_stop, fw_tracing, fw_target>>

\* C1: at most one session (control structure, ring buffer, registered
\* interrupt) exists per device at any time, so that every session created is
\* torn down before the next one is created.
C1_LifecyclePairing ==
    /\ Cardinality(Live(ctrl)) <= 1
    /\ Cardinality(Live(dma)) <= 1
    /\ Cardinality(Registered) <= 1

\* C2: once aie2_event_trace_free has returned for a session, no run of
\* log_buffer_irq_handler works on that session's ring buffer or control
\* structure.
C2_TeardownSafety ==
    h_pc \in {"drain", "decode", "oops"} => ~TornDown(h_req)

\* a handler drains a session while an earlier session has been torn down
C2_Witness ==
    /\ h_pc \in {"drain", "decode"}
    /\ \E i \in Ids : TornDown(i)

\* C3: when set_trace_state(enabled) allocated its session and the firmware
\* start message then failed, on return the ring buffer is freed, the
\* interrupt deregistered, the control structure freed and the device has no
\* session pointer.
C3_FailedStartRecovery ==
    (pc = "ret" /\ arg = 1 /\ dbg = <<"start_failed", "state">>) =>
        /\ req_buf # NULL
        /\ dma[req_buf] = "freed"
        /\ irq[req_buf] = "freed"
        /\ ctrl[req_buf] = "freed"
        /\ event_trace_req = NULL

\* set_trace_state(enabled) is about to return after its start message failed
C3_Witness ==
    /\ pc = "ret" /\ arg = 1 /\ dbg = <<"start_failed", "state">>
    /\ n_start > 0

\* C6: a set_trace_state call whose requested state equals the flag sends no
\* firmware message, allocates and frees nothing, and leaves the flag and the
\* session as they were.
C6_IdempotentToggle ==
    [][(pc = "entry" /\ pc' # "entry" /\ arg = event_trace_enabled) =>
          /\ pc' = "ret"
          /\ UNCHANGED <<event_trace_enabled, SessionState, Mailbox>>]_vars

\* enable was requested with tracing enabled and a session active, and the
\* call is about to return
C6_Witness ==
    /\ pc = "ret" /\ arg = 1 /\ dbg = <<"already">>
    /\ event_trace_req # NULL

\* C7: on a device failing the capability gate the flag is never enabled, no
\* session is ever created and no firmware message is ever sent, whatever
\* calls are made.
C7_CapabilityGating ==
    GateDenies =>
        /\ event_trace_enabled # EVENT_TRACE_ENABLED
        /\ event_trace_req = NULL
        /\ \A i \in Ids : ctrl[i] = "none" /\ dma[i] = "none" /\ irq[i] = "none"
        /\ n_start = 0 /\ n_stop = 0 /\ ~fw_tracing

\* enable was requested on a device of the right id whose revision is too
\* old, and the call is about to return
C7_Witness ==
    /\ pc = "ret" /\ arg = 1 /\ dbg = <<"unsupported">>
    /\ pdev.present /\ pdev.device = TraceDeviceId

\* C9: a set_trace_state call that changes the flag returns only through the
\* write that clears the log-buffer interrupt register, and that write comes
\* after the teardown the call performs: start succeeded (session kept),
\* start failed or stop sent (no session left, nothing of it still held),
\* disable before the device started (nothing touched).
C9_ClearAtEnd ==
    [][/\ (pc = "entry" /\ event_trace_enabled' # event_trace_enabled)
            => pc' # "ret"
       /\ (pc' = "ret" /\ pc \notin {"ret", "entry"}) =>
            /\ pc = "clear" /\ msix_reg' = 0
            /\ UNCHANGED <<SessionState, Mailbox>>
            /\ ("start_failed" \in {dbg[k] : k \in 1 .. Len(dbg)}
                  \/ (arg = 0 /\ dbg = <<>>))
               => /\ event_trace_req = NULL
                  /\ req_buf # NULL =>
                       dma[req_buf] = "freed" /\ TornDown(req_buf)
       ]_vars

\* a disable that sent the stop message and tore the session down is about
\* to return with the register cleared
C9_Witness ==
    /\ pc = "ret" /\ arg = 0 /\ dbg = <<"state">>
    /\ n_stop > 0 /\ req_buf # NULL /\ TornDown(req_buf)
    /\ msix_reg = 0

(* ------------------ claims on handler and teardown together ------------ *)

\* C11: while log_buffer_irq_handler runs beside aie2_event_trace_free, the
\* handler never reads the ring buffer after dma_free_noncoherent released it
\* and never dereferences ndev->event_trace_req after it was set to NULL.
C11_TeardownRace ==
    [][/\ (h_pc = "drain" /\ h_pc' = "decode") => dma[h_req] = "live"
       /\ h_pc' # "oops"]_vars

\* the device has an active session: pointer set, ring buffer allocated,
\* interrupt registered
ActiveSession ==
    /\ event_trace_req # NULL
    /\ ctrl[event_trace_req] = "live"
    /\ dma[event_trace_req] = "live"
    /\ irq[event_trace_req] = "registered"

\* the log messages of the call in progress
Logged == {dbg[k] : k \in 1 .. Len(dbg)}

\* C14: in aie2_event_trace_alloc the ring buffer is allocated before the
\* interrupt is registered, ndev->event_trace_req is non-NULL only once the
\* registration has succeeded, and when allocation or registration fails the
\* device at no time has a session pointer and nothing stays allocated.
C14_StartOrdering ==
    /\ \A i \in Ids : irq[i] = "registered" => dma[i] # "none"
    /\ event_trace_req # NULL => irq[event_trace_req] = "registered"
    /\ (pc = "fail_free" /\ "alloc_failed" \in Logged) =>
          /\ event_trace_req = NULL
          /\ req_buf # NULL =>
                /\ ctrl[req_buf] = "freed" /\ dma[req_buf] # "live"
                /\ irq[req_buf] = "none"

\* C15: a disable from enabled with the device started and a session active
\* sends the stop message once, while the session is still whole, and tears
\* the session down whether the message succeeded or failed; with the device
\* not started no stop message is sent.
C15_DisableTransition ==
    [][/\ n_stop' # n_stop =>
            /\ pc = "stop_send" /\ arg = 0 /\ n_stop' = n_stop + 1
            /\ dev_status >= AIE2_DEV_START
            /\ ActiveSession
       /\ (pc' = "stop_send" /\ pc # "stop_send") =>
            /\ pc = "entry" /\ arg = 0 /\ dev_status >= AIE2_DEV_START
            /\ event_trace_enabled = EVENT_TRACE_ENABLED
       /\ (pc = "stop_send" /\ pc' # "stop_send") =>
            /\ pc' = "free"
            /\ event_trace_req # NULL => n_stop' = n_stop + 1
       /\ (pc = "entry" /\ arg = 0 /\ dev_status < AIE2_DEV_START) =>
            pc' \in {"entry", "ret", "clear"}
       /\ (pc' = "ret" /\ pc # "ret" /\ arg = 0 /\ dbg' = <<"state">>) =>
            /\ event_trace_req = NULL
            /\ req_buf # NULL =>
                 dma[req_buf] = "freed" /\ TornDown(req_buf)
      ]_vars

\* a disable whose stop message failed is about to return with the session
\* torn down
C15_Witness ==
    /\ pc = "ret" /\ arg = 0 /\ ret = -1 /\ n_stop > 0
    /\ req_buf # NULL /\ dma[req_buf] = "freed" /\ TornDown(req_buf)

\* C16: the anchor of a session is written once, by
\* aie2_set_trace_timestamp, and every record the handler decodes is
\* converted with an anchor that was set: none is decoded between interrupt
\* registration and the anchor being set.
C16_AnchorBeforeDecode ==
    [][/\ \A i \in Ids : anchor'[i] # anchor[i] =>
             pc = "set_timestamp" /\ i = req_buf /\ anchor[i] = ZeroAnchor
       /\ \A k \in 1 .. Len(log_out') :
             /\ log_out'[k].resp_timestamp \in Timestamps
             /\ log_out'[k].sys_start_time \in Timestamps
      ]_vars

\* what a handler run that is gated off must leave alone
GatedFrame ==
    /\ UNCHANGED <<head_offset, tail_offset, sysBuf, g_fwLogBuf, delivered>>
    /\ UNCHANGED <<SessionState, anchor>>
    /\ log_out' = <<>>

\* C17: every run of log_buffer_irq_handler clears the interrupt register on
\* entry; with the flag not enabled, or with the flag enabled and no session
\* pointer, it returns leaving head_offset, the scratch buffer and the
\* session as they were and emits no record.
C17_HandlerGating ==
    [][/\ (h_pc = "idle" /\ h_pc' # "idle") => msix_reg' = 0
       /\ (h_pc = "flag" /\ h_pc' # "flag"
             /\ event_trace_enabled # EVENT_TRACE_ENABLED) =>
            h_pc' = "idle" /\ GatedFrame
       /\ (h_pc = "print" /\ h_pc' # "print" /\ event_trace_req = NULL) =>
            h_pc' = "idle" /\ GatedFrame
      ]_vars

\* a handler run passed the flag test and finds no session pointer while
\* the interrupt of a session is still registered
C17_Witness ==
    /\ h_pc = "print" /\ event_trace_req = NULL
    /\ event_trace_enabled = EVENT_TRACE_ENABLED
    /\ msix_reg = 0 /\ Registered # {}

\* C18: the start message is sent only after aie2_event_trace_alloc
\* succeeded and names the session that call allocated; a failed allocation
\* returns its error with no message sent, and a failed message returns its
\* error with the session still allocated and active.
C18_StartComposition ==
    [][/\ n_start' # n_start =>
            /\ pc = "send_start" /\ n_start' = n_start + 1
            /\ ret = 0 /\ req_buf # NULL /\ event_trace_req = req_buf
            /\ ActiveSession
            /\ ret' = 0 => fw_tracing' /\ fw_target' = req_buf
            /\ ret' # 0 => UNCHANGED SessionState
       /\ (pc = "send_start" /\ pc' # "send_start") => n_start' = n_start + 1
       /\ (pc \in {"kzalloc", "dma_alloc", "request_irq"} /\ ret' # 0) =>
            /\ ret' \in {-ENOMEM, -1}
            /\ pc' \in {"fail_free", "alloc_unpublish", "alloc_free_dma"}
       /\ (pc \in {"alloc_unpublish", "alloc_free_dma"}) =>
            /\ ret' = ret /\ ret # 0
            /\ pc' \in {"fail_free", "alloc_unpublish", "alloc_free_dma"}
      ]_vars

\* the start message failed: the error is returned and the session is
\* still whole when aie2_start_event_trace_send returns
C18_Witness ==
    /\ pc = "fail_free" /\ ret = -1 /\ n_start > 0
    /\ dbg = <<"start_failed">>
    /\ event_trace_req = req_buf /\ ActiveSession

\* C19: whenever no set_trace_state call is in progress the flag is enabled
\* exactly when the device has an active session.
C19_FlagSessionConsistency ==
    pc = "idle" =>
        ((event_trace_enabled = EVENT_TRACE_ENABLED) <=> ActiveSession)

(* --------------------- claims on the published cursor ------------------ *)

\* C12: a drain sets metadata.head_offset to exactly the tail_offset it
\* read, whatever the value of the 64-bit counter, so that the next drain
\* starts at physical position tail_offset mod rb_size.
C12_HeadPublication ==
    event_trace_req # NULL =>
        /\ head_offset[event_trace_req] = drain_in.tail
        /\ head_offset[event_trace_req] % rb_size = drain_in.tail % rb_size

(* --------------------------- claims on the copy loop ------------------- *)

\* the drain most recently run, as the function ran it: its exit, the
\* rd_ptr it ended with and the segments it copied
LastDrain ==
    aie2_get_trace_event_content(drain_in.sys, rb_size, drain_in.head,
                                 drain_in.tail, g_fwLogBuf)

\* rd_ptr and wr_ptr_wrap of the drain most recently run (lines 118-120)
LastRdPtr == (drain_in.head % rb_size) % U32
LastWrPtrWrap == WrPtr(drain_in.tail) % rb_size

\* passes through the body of the do-while: one per segment copied, and the
\* pass that left through return 0
Iterations == Len(segs) + (IF LastDrain.exit = "done" THEN 0 ELSE 1)

\* C13: for every rd_ptr and wr_ptr_wrap in [0, rb_size) the copy loop ends
\* after at most two iterations, after exactly one when the range does not
\* wrap, and on its normal exit rd_ptr equals wr_ptr_wrap.
C13_LoopTermination ==
    /\ LastRdPtr \in 0 .. rb_size - 1 /\ LastWrPtrWrap \in 0 .. rb_size - 1
    /\ Iterations <= 2
    /\ LastWrPtrWrap >= LastRdPtr => Iterations = 1
    /\ LastDrain.exit = "done" => LastDrain.rd_ptr = LastWrPtrWrap

\* a drain whose range wrapped took two passes and ended at wr_ptr_wrap
C13_Witness ==
    /\ LastWrPtrWrap < LastRdPtr /\ Len(segs) = 2
    /\ LastDrain.exit = "done" /\ LastDrain.rd_ptr = LastWrPtrWrap

\* C20: for every head_offset and tail_offset each segment copied stays
\* inside the log area (rd_ptr + log_size <= rb_size) and inside the first
\* rb_size bytes of the scratch buffer (offset + log_size <= rb_size), the
\* total returned is below rb_size, and the log_size > rb_size branch is
\* never taken.
C20_CopyBounds ==
    /\ \A k \in 1 .. Len(segs) :
          /\ segs[k].rd_ptr + segs[k].log_size <= rb_size
          /\ segs[k].offset + segs[k].log_size <= rb_size
    /\ log_size < rb_size
    /\ LastDrain.exit # "corrupt"

\* a drain begun with tail_offset past the uint32_t range and more than
\* rb_size bytes unread copied two segments
C20_Witness ==
    /\ drain_in.tail >= U32 /\ drain_in.tail - drain_in.head > rb_size
    /\ Len(segs) = 2 /\ log_size = rb_size - 1

=============================================================================
